---- MODULE Spec2Model ----
(***************************************************************************)
(* Chonkywalls: the two wallpaper layout engines.                          *)
(*   Mode A  src/Chaos.py  create_chunk_grid_layout  (deterministic fill)  *)
(*   Mode B  src/zen3.py   create_freeflow_layout    (weighted free-flow)  *)
(* One run of one layout function is one behaviour.  A grid is the nested  *)
(* list grid[r][c] of booleans, the canvas is the log of the pastes made   *)
(* on it (image, anchor and shape in grid cells), in paste order.          *)
(*                                                                         *)
(* Specifications:                                                         *)
(*   Spec          one run of a layout function at the default resolution  *)
(*   zen3FairSpec  one run of create_freeflow_layout, steps taken          *)
(*   ProbeSpec     one call of get_screen_resolution                       *)
(*   MainSpec      one run of main()                                       *)
(*   GeomSpec      the target rectangles of two placements of Mode B       *)
(*   FitSpec       one fit of an image to a target rectangle               *)
(***************************************************************************)
EXTENDS Integers, Sequences, FiniteSets

\* The loop locals chunk_w, chunk_h, row, col, position and img are assigned
\* in every iteration before they are read; they are bound inside the actions
\* and are no part of the state between iterations.
VARIABLES mode, images, grid, image_idx, placement_attempts, chunk_i,
          canvas, pc, ret

\* History of a Mode A run, no variable of the program: the shapes whose
\* iteration found no free anchor so far.
VARIABLES failed

\* What lies around the layout function:
\*   screen    (screen_width, screen_height), the result of
\*             get_screen_resolution and the argument of the layout function
\*   probe     what running  hyprctl monitors  does, the input of
\*             get_screen_resolution
\*   main_pc   the position of main()
\*   file      the output file, "absent" or "written"
\*   applied   the wallpaper command  swww img  has been run
\*   out       the messages main() has printed, in order
\*   img_size  (img.width, img.height) of the image being fitted
\*   target    the target rectangle (x, y, w, h) of the image being fitted
\*   fitted    what the fit computed and pasted
\*   rects     the pixel geometry computed for placements
VARIABLES screen, probe, main_pc, file, applied, out, img_size, target,
          fitted, rects

layout_vars == <<mode, images, grid, image_idx, placement_attempts, chunk_i,
                 canvas, pc, ret, failed>>

env_vars == <<screen, probe, main_pc, file, applied, out, img_size, target,
              fitted, rects>>

vars == <<mode, images, grid, image_idx, placement_attempts, chunk_i,
          canvas, pc, ret, failed, screen, probe, main_pc, file, applied, out,
          img_size, target, fitted, rects>>

\* Python's None
None == <<>>

(***************************************************************************)
(* Bounds of the model.                                                    *)
(***************************************************************************)
\* largest number of images handed to Mode A (28 placements fill its grid)
MaxImagesA == 29
\* largest number of images handed to Mode B
MaxImagesB == 2
\* Mode B grid used by the model (zen3.py runs the same code on 8 x 28)
zen3_GRID_ROWS == 2
zen3_GRID_COLS == 3

(***************************************************************************)
(* Chaos.py constants                                                      *)
(***************************************************************************)
Chaos_GRID_ROWS == 6
Chaos_GRID_COLS == 24
Chaos_CHUNKS == << <<6, 3>>, <<4, 3>>, <<3, 2>>, <<2, 3>>,
                   <<2, 2>>, <<2, 1>>, <<1, 2>>, <<1, 1>> >>
Chaos_OUTER_PADDING == 30
Chaos_INNER_PADDING == 12
\* CHUNKS * 100
Chaos_CYCLES == 100
\* The catalog is gone through once.
Chaos_sequence_len_one_pass == Len(Chaos_CHUNKS)

Chaos_sequence_len == Len(Chaos_CHUNKS) * Chaos_CYCLES

(***************************************************************************)
(* zen3.py constants                                                       *)
(***************************************************************************)
zen3_CHUNKS == << <<4, 2>>, <<3, 2>>, <<2, 3>>, <<3, 1>>, <<2, 2>>, <<1, 3>>,
                  <<2, 1>>, <<1, 2>>, <<1, 1>>, <<4, 1>>, <<1, 4>>, <<3, 3>> >>
zen3_CHUNK_WEIGHTS == <<2, 3, 4, 3, 5, 3, 6, 6, 10, 2, 2, 1>>
fallback_chunks == << <<2, 1>>, <<1, 2>>, <<1, 1>> >>
\* positions[:min(5, len(positions))]
TOP_N == 5
zen3_OUTER_PADDING == 20
zen3_INNER_PADDING == 6
\* max_attempts = len(shuffled_images) * 3
ATTEMPT_FACTOR == 3

\* return 5120, 1440
DEFAULT_RESOLUTION == <<5120, 1440>>

Min(a, b) == IF a < b THEN a ELSE b
Max(a, b) == IF a > b THEN a ELSE b

(***************************************************************************)
(* The image queue.  Images are the identities 1..n; random.shuffle may    *)
(* leave any permutation, of which the model takes the identity and the    *)
(* reversal.                                                               *)
(***************************************************************************)
ShuffledQueues(n) ==
  { [i \in 1..n |-> i], [i \in 1..n |-> n + 1 - i] }

EmptyGrid(rows, cols) == [r \in 0..(rows - 1) |-> [c \in 0..(cols - 1) |-> FALSE]]

(***************************************************************************)
(* Chaos.py: fits, occupy, the row-major scan                              *)
(***************************************************************************)
Chaos_fits(g, chunk_w, chunk_h, row, col) ==
  IF row + chunk_h > Chaos_GRID_ROWS \/ col + chunk_w > Chaos_GRID_COLS
  THEN FALSE
  ELSE \A r \in row..(row + chunk_h - 1) :
         \A c \in col..(col + chunk_w - 1) : ~g[r][c]

Chaos_occupy(g, chunk_w, chunk_h, row, col) ==
  [r \in DOMAIN g |->
     [c \in DOMAIN g[r] |->
        IF r \in row..(row + chunk_h - 1) /\ c \in col..(col + chunk_w - 1)
        THEN TRUE ELSE g[r][c]]]

\* Chaos_scan_row with the columns visited from the right
RECURSIVE Chaos_scan_row_from_right(_, _, _, _, _)
Chaos_scan_row_from_right(g, chunk_w, chunk_h, row, col) ==
  IF col >= Chaos_GRID_COLS THEN None
  ELSE IF Chaos_fits(g, chunk_w, chunk_h, row, Chaos_GRID_COLS - 1 - col)
       THEN <<row, Chaos_GRID_COLS - 1 - col>>
  ELSE Chaos_scan_row_from_right(g, chunk_w, chunk_h, row, col + 1)

\* for col in range(GRID_COLS): if fits(chunk_w, chunk_h, row, col): ... break
\* the first fitting column of a row, from col on, or None
RECURSIVE Chaos_scan_row(_, _, _, _, _)
Chaos_scan_row(g, chunk_w, chunk_h, row, col) ==
  IF col >= Chaos_GRID_COLS THEN None
  ELSE IF Chaos_fits(g, chunk_w, chunk_h, row, col) THEN <<row, col>>
  ELSE Chaos_scan_row(g, chunk_w, chunk_h, row, col + 1)

\* for row in range(GRID_ROWS): ... if placed: break
\* the first anchor the two loops find, from row on, or None
RECURSIVE Chaos_scan(_, _, _, _)
Chaos_scan(g, chunk_w, chunk_h, row) ==
  IF row >= Chaos_GRID_ROWS THEN None
  ELSE LET found == Chaos_scan_row(g, chunk_w, chunk_h, row, 0)
       IN IF found # None THEN found
          ELSE Chaos_scan(g, chunk_w, chunk_h, row + 1)

(***************************************************************************)
(* zen3.py: fits, occupy, find_best_position                               *)
(***************************************************************************)
\* zen3_fits looking at the anchor cell only
zen3_fits_anchor_only(g, chunk_w, chunk_h, row, col) ==
  IF row + chunk_h > zen3_GRID_ROWS \/ col + chunk_w > zen3_GRID_COLS
  THEN FALSE
  ELSE ~g[row][col]

\* zen3_fits without the bounds test, cells outside the grid counting as free
zen3_fits_unbounded(g, chunk_w, chunk_h, row, col) ==
  \A r \in row..(row + chunk_h - 1) :
    \A c \in col..(col + chunk_w - 1) :
      (r \in DOMAIN g /\ c \in DOMAIN g[r]) => ~g[r][c]

zen3_fits(g, chunk_w, chunk_h, row, col) ==
  IF row + chunk_h > zen3_GRID_ROWS \/ col + chunk_w > zen3_GRID_COLS
  THEN FALSE
  ELSE \A r \in row..(row + chunk_h - 1) :
         \A c \in col..(col + chunk_w - 1) : ~g[r][c]

\* zen3_occupy writing the rectangle into a fresh grid
zen3_occupy_fresh(g, chunk_w, chunk_h, row, col) ==
  [r \in DOMAIN g |->
     [c \in DOMAIN g[r] |->
        r \in row..(row + chunk_h - 1) /\ c \in col..(col + chunk_w - 1)]]

zen3_occupy(g, chunk_w, chunk_h, row, col) ==
  [r \in DOMAIN g |->
     [c \in DOMAIN g[r] |->
        IF r \in row..(row + chunk_h - 1) /\ c \in col..(col + chunk_w - 1)
        THEN TRUE ELSE g[r][c]]]

\* the neighbors counter of find_best_position
neighbors(g, chunk_w, chunk_h, row, col) ==
  Cardinality({ rc \in (Max(0, row - 1)..(Min(zen3_GRID_ROWS, row + chunk_h + 1) - 1))
                       \X (Max(0, col - 1)..(Min(zen3_GRID_COLS, col + chunk_w + 1) - 1)) :
                g[rc[1]][rc[2]] })

\* score = neighbors - (row * 0.1) - (col * 0.05), kept in twentieths so that
\* it stays an integer: 20 * score.  Two scores that differ differ by at
\* least 0.05, far more than the rounding of the three float operations, so
\* the float order agrees with this one wherever this one is strict.
score(g, chunk_w, chunk_h, row, col) ==
  20 * neighbors(g, chunk_w, chunk_h, row, col) - 2 * row - col

\* the list positions: one (score, row, col) per fitting anchor
positions(g, chunk_w, chunk_h) ==
  { <<score(g, chunk_w, chunk_h, rc[1], rc[2]), rc[1], rc[2]>> :
      rc \in { a \in (0..(zen3_GRID_ROWS - 1)) \X (0..(zen3_GRID_COLS - 1)) :
               zen3_fits(g, chunk_w, chunk_h, a[1], a[2]) } }

\* top_positions after an ascending sort
top_positions_ascending(ps) ==
  { p \in ps : Cardinality({ q \in ps : q[1] < p[1] }) < Min(TOP_N, Cardinality(ps)) }

\* positions.sort(reverse=True); positions[:min(5, len(positions))]
\* Anchors whose exact scores are equal are ordered by the rounding noise of
\* their float scores and then by (row, col); every order of such ties is
\* allowed here, so a candidate can be in the slice iff fewer than 5
\* candidates have a strictly higher score.
top_positions(ps) ==
  { p \in ps : Cardinality({ q \in ps : q[1] > p[1] }) < Min(TOP_N, Cardinality(ps)) }

\* the values find_best_position can return: random.choice(top_positions)[1:]
find_best_position(g, chunk_w, chunk_h) ==
  LET ps == positions(g, chunk_w, chunk_h)
  IN IF ps # {}
     THEN { <<p[2], p[3]>> : p \in top_positions(ps) }
     ELSE { None }

\* random.choices(CHUNKS, weights=CHUNK_WEIGHTS, k=1)[0]
get_random_chunk ==
  { zen3_CHUNKS[i] : i \in { j \in DOMAIN zen3_CHUNKS : zen3_CHUNK_WEIGHTS[j] > 0 } }

\* try_fallbacks without  chunk_w, chunk_h = fallback_w, fallback_h
RECURSIVE try_fallbacks_keeps_drawn(_, _, _)
try_fallbacks_keeps_drawn(g, c, k) ==
  IF k > Len(fallback_chunks) THEN { <<c, None>> }
  ELSE LET found == find_best_position(g, fallback_chunks[k][1], fallback_chunks[k][2])
       IN IF found = { None }
          THEN try_fallbacks_keeps_drawn(g, c, k + 1)
          ELSE { <<c, p>> : p \in found }

\* No fallback shape is tried.
try_fallbacks_gives_up(g, c, k) == { <<c, None>> }

\* for fallback_w, fallback_h in fallback_chunks: ... break
\* the possible (chunk, position) pairs after the loop, from fallback k on
RECURSIVE try_fallbacks(_, _, _)
try_fallbacks(g, c, k) ==
  IF k > Len(fallback_chunks) THEN { <<c, None>> }
  ELSE LET found == find_best_position(g, fallback_chunks[k][1], fallback_chunks[k][2])
       IN IF found = { None }
          THEN try_fallbacks(g, c, k + 1)
          ELSE { <<fallback_chunks[k], p>> : p \in found }

\* canvas.paste(...): the paste of image img on the chunk anchored at (row, col)
paste(cv, img, chunk_w, chunk_h, row, col) ==
  Append(cv, [img |-> img, row |-> row, col |-> col, w |-> chunk_w, h |-> chunk_h])

(***************************************************************************)
(* Pixel geometry (the same arithmetic in both programs).                  *)
(***************************************************************************)
\* Python's  a // b
FloorDiv(a, b) == a \div b

\* cell_width  = (screen_width  - 2 * OUTER_PADDING - (GRID_COLS - 1) * INNER_PADDING) // GRID_COLS
\* cell_height = (screen_height - 2 * OUTER_PADDING - (GRID_ROWS - 1) * INNER_PADDING) // GRID_ROWS
cell_size(extent, outer, inner, n) ==
  FloorDiv(extent - 2 * outer - (n - 1) * inner, n)

Chaos_cell_width(scr) ==
  cell_size(scr[1], Chaos_OUTER_PADDING, Chaos_INNER_PADDING, Chaos_GRID_COLS)
Chaos_cell_height(scr) ==
  cell_size(scr[2], Chaos_OUTER_PADDING, Chaos_INNER_PADDING, Chaos_GRID_ROWS)
zen3_cell_width(scr) ==
  cell_size(scr[1], zen3_OUTER_PADDING, zen3_INNER_PADDING, zen3_GRID_COLS)
zen3_cell_height(scr) ==
  cell_size(scr[2], zen3_OUTER_PADDING, zen3_INNER_PADDING, zen3_GRID_ROWS)

\* target_rect with the padding after the last cell counted in w and h
target_rect_padded(outer, inner, cell_width, cell_height, chunk_w, chunk_h, row, col) ==
  [x |-> outer + col * (cell_width + inner),
   y |-> outer + row * (cell_height + inner),
   w |-> chunk_w * (cell_width + inner),
   h |-> chunk_h * (cell_height + inner)]

\* x = OUTER_PADDING + col * (cell_width + INNER_PADDING)
\* y = OUTER_PADDING + row * (cell_height + INNER_PADDING)
\* w = chunk_w * cell_width + (chunk_w - 1) * INNER_PADDING
\* h = chunk_h * cell_height + (chunk_h - 1) * INNER_PADDING
target_rect(outer, inner, cell_width, cell_height, chunk_w, chunk_h, row, col) ==
  [x |-> outer + col * (cell_width + inner),
   y |-> outer + row * (cell_height + inner),
   w |-> chunk_w * cell_width + (chunk_w - 1) * inner,
   h |-> chunk_h * cell_height + (chunk_h - 1) * inner]

Chaos_target(scr, chunk_w, chunk_h, row, col) ==
  target_rect(Chaos_OUTER_PADDING, Chaos_INNER_PADDING,
              Chaos_cell_width(scr), Chaos_cell_height(scr),
              chunk_w, chunk_h, row, col)

zen3_target(scr, chunk_w, chunk_h, row, col) ==
  target_rect(zen3_OUTER_PADDING, zen3_INNER_PADDING,
              zen3_cell_width(scr), zen3_cell_height(scr),
              chunk_w, chunk_h, row, col)

(***************************************************************************)
(* Python floats.  A float is a positive IEEE 754 binary64 number, the     *)
(* record [m, e] of value m * 2^e with 2^52 <= m < 2^53.  The mantissa is  *)
(* a natural number written as the sequence of its digits to the base      *)
(* 2^15, lowest digit first.  Every operation rounds its exact result to   *)
(* the nearest float, ties to the even mantissa.                           *)
(***************************************************************************)
LIMB_BITS == 15
LIMB == 32768
MANT_BITS == 53

RECURSIVE Pow2(_)
Pow2(k) == IF k = 0 THEN 1 ELSE 2 * Pow2(k - 1)

RECURSIVE BitLen(_)
BitLen(n) == IF n = 0 THEN 0 ELSE 1 + BitLen(n \div 2)

RECURSIVE BigOf(_)
BigOf(n) == IF n = 0 THEN << >> ELSE <<n % LIMB>> \o BigOf(n \div LIMB)

RECURSIVE BigTrim(_)
BigTrim(a) ==
  IF a = << >> \/ a[Len(a)] # 0 THEN a ELSE BigTrim(SubSeq(a, 1, Len(a) - 1))

BigLimb(a, i) == IF i <= Len(a) THEN a[i] ELSE 0

\* -1, 0 or 1 as a < b, a = b or a > b, comparing from digit i down
RECURSIVE BigCmpFrom(_, _, _)
BigCmpFrom(a, b, i) ==
  IF i = 0 THEN 0
  ELSE IF BigLimb(a, i) < BigLimb(b, i) THEN -1
  ELSE IF BigLimb(a, i) > BigLimb(b, i) THEN 1
  ELSE BigCmpFrom(a, b, i - 1)

BigCmp(a, b) == BigCmpFrom(a, b, Max(Len(a), Len(b)))

RECURSIVE BigAddFrom(_, _, _, _)
BigAddFrom(a, b, i, carry) ==
  IF i > Len(a) /\ i > Len(b)
  THEN IF carry = 0 THEN << >> ELSE <<carry>>
  ELSE LET t == BigLimb(a, i) + BigLimb(b, i) + carry
       IN <<t % LIMB>> \o BigAddFrom(a, b, i + 1, t \div LIMB)

BigAdd(a, b) == BigAddFrom(a, b, 1, 0)

\* a - b for a >= b
RECURSIVE BigSubFrom(_, _, _, _)
BigSubFrom(a, b, i, borrow) ==
  IF i > Len(a) THEN << >>
  ELSE LET t == BigLimb(a, i) - BigLimb(b, i) - borrow
       IN IF t < 0
          THEN <<t + LIMB>> \o BigSubFrom(a, b, i + 1, 1)
          ELSE <<t>> \o BigSubFrom(a, b, i + 1, 0)

BigSub(a, b) == BigTrim(BigSubFrom(a, b, 1, 0))

\* a * k for 0 <= k <= LIMB
RECURSIVE BigMulSmallFrom(_, _, _, _)
BigMulSmallFrom(a, k, i, carry) ==
  IF i > Len(a)
  THEN IF carry = 0 THEN << >> ELSE <<carry>>
  ELSE LET t == a[i] * k + carry
       IN <<t % LIMB>> \o BigMulSmallFrom(a, k, i + 1, t \div LIMB)

BigMulSmall(a, k) == BigTrim(BigMulSmallFrom(a, k, 1, 0))

\* a * LIMB^n
BigShiftLimbs(a, n) ==
  IF a = << >> THEN a ELSE [i \in 1..n |-> 0] \o a

RECURSIVE BigMulFrom(_, _, _)
BigMulFrom(a, b, i) ==
  IF i > Len(b) THEN << >>
  ELSE BigAdd(BigShiftLimbs(BigMulSmall(a, b[i]), i - 1), BigMulFrom(a, b, i + 1))

BigMul(a, b) == BigTrim(BigMulFrom(a, b, 1))

BigBitLen(a) ==
  IF a = << >> THEN 0 ELSE (Len(a) - 1) * LIMB_BITS + BitLen(a[Len(a)])

\* a * 2^s
BigShl(a, s) ==
  BigShiftLimbs(BigMulSmall(a, Pow2(s % LIMB_BITS)), s \div LIMB_BITS)

\* a // 2^s
BigShr(a, s) ==
  LET q == s \div LIMB_BITS
      r == s % LIMB_BITS
  IN BigTrim([i \in 1..Max(Len(a) - q, 0) |->
                (BigLimb(a, i + q) \div Pow2(r))
                + (BigLimb(a, i + q + 1) % Pow2(r)) * Pow2(LIMB_BITS - r)])

\* bit i of a, bit 0 the lowest
BigBit(a, i) ==
  (BigLimb(a, (i \div LIMB_BITS) + 1) \div Pow2(i % LIMB_BITS)) % 2

\* a % 2^s = 0
BigLowZero(a, s) ==
  /\ \A j \in 1..(s \div LIMB_BITS) : BigLimb(a, j) = 0
  /\ BigLimb(a, (s \div LIMB_BITS) + 1) % Pow2(s % LIMB_BITS) = 0

RECURSIVE BigToInt(_)
BigToInt(a) == IF a = << >> THEN 0 ELSE a[1] + LIMB * BigToInt(Tail(a))

\* The float nearest to p * 2^e, for a natural p > 0
RoundToFloat(p, e) ==
  LET n == BigBitLen(p)
  IN IF n <= MANT_BITS
     THEN [m |-> BigShl(p, MANT_BITS - n), e |-> e - (MANT_BITS - n)]
     ELSE LET s == n - MANT_BITS
              q == BigShr(p, s)
              up == /\ BigBit(p, s - 1) = 1
                    /\ (~BigLowZero(p, s - 1) \/ BigBit(q, 0) = 1)
              m == IF up THEN BigAdd(q, <<1>>) ELSE q
          IN IF BigBitLen(m) > MANT_BITS
             THEN [m |-> BigShr(m, 1), e |-> e + s + 1]
             ELSE [m |-> m, e |-> e + s]

\* float(k) for an int k >= 1
FloatOf(k) == RoundToFloat(BigOf(k), 0)

\* The quotient bits of rem / d after the first: q doubled and the next bit
\* added n times, with a last bit set when the division is not exact
RECURSIVE DivBits(_, _, _, _)
DivBits(rem, d, n, q) ==
  IF n = 0 \/ Len(q) = 0
  THEN BigAdd(BigAdd(q, q), IF rem = << >> THEN << >> ELSE <<1>>)
  ELSE LET r2 == BigAdd(rem, rem)
       IN IF BigCmp(r2, d) >= 0
          THEN DivBits(BigSub(r2, d), d, n - 1, BigAdd(BigAdd(q, q), <<1>>))
          ELSE DivBits(r2, d, n - 1, BigAdd(q, q))

\* a / b
FloatDiv(a, b) ==
  LET adj == IF BigCmp(a.m, b.m) >= 0 THEN 0 ELSE 1
      x == IF adj = 0 THEN a.m ELSE BigAdd(a.m, a.m)
      p == DivBits(BigSub(x, b.m), b.m, MANT_BITS, <<1>>)
  IN RoundToFloat(p, a.e - b.e - adj - MANT_BITS - 1)

\* a * b
FloatMul(a, b) == RoundToFloat(BigMul(a.m, b.m), a.e + b.e)

\* a > b
FloatGreater(a, b) ==
  \/ a.e > b.e
  \/ a.e = b.e /\ BigCmp(a.m, b.m) = 1

\* int(a)
IntOfFloat(a) ==
  IF a.e >= 0 THEN BigToInt(BigShl(a.m, a.e))
  ELSE BigToInt(BigShr(a.m, 0 - a.e))

(***************************************************************************)
(* The two fits of an image of size (iw, ih) to a target rectangle t.      *)
(* The result records the size of the resized image and the rectangle the  *)
(* pasted bitmap takes on the canvas.                                      *)
(***************************************************************************)
\* aspect_img = img.width / img.height
aspect_of(width, height) == FloatDiv(FloatOf(width), FloatOf(height))

\* new_width = int(h * aspect_img)
scaled_width(h, aspect_img) == IntOfFloat(FloatMul(FloatOf(h), aspect_img))

\* new_height = int(w / aspect_img)
scaled_height(w, aspect_img) == IntOfFloat(FloatDiv(FloatOf(w), aspect_img))

\* Chaos.py: resize to cover, paste centred, no crop
Chaos_fit(iw, ih, t) ==
  LET aspect_img == aspect_of(iw, ih)
      aspect_chunk == aspect_of(t.w, t.h)
      wide == FloatGreater(aspect_img, aspect_chunk)
      new_width == IF wide THEN scaled_width(t.h, aspect_img) ELSE t.w
      new_height == IF wide THEN t.h ELSE scaled_height(t.w, aspect_img)
      offset_x == t.x + FloorDiv(t.w - new_width, 2)
      offset_y == t.y + FloorDiv(t.h - new_height, 2)
  IN [wide |-> wide, new_width |-> new_width, new_height |-> new_height,
      paste_x |-> offset_x, paste_y |-> offset_y,
      paste_w |-> new_width, paste_h |-> new_height,
      crop_x |-> 0, crop_y |-> 0]

\* zen3.py: resize to cover, crop the centre to the target, paste
zen3_fit(iw, ih, t) ==
  LET aspect_img == aspect_of(iw, ih)
      aspect_chunk == aspect_of(t.w, t.h)
      wide == FloatGreater(aspect_img, aspect_chunk)
      new_width == IF wide THEN scaled_width(t.h, aspect_img) ELSE t.w
      new_height == IF wide THEN t.h ELSE scaled_height(t.w, aspect_img)
      offset_x == IF wide THEN t.x - FloorDiv(new_width - t.w, 2) ELSE t.x
      offset_y == IF wide THEN t.y ELSE t.y - FloorDiv(new_height - t.h, 2)
  IN IF new_width > t.w \/ new_height > t.h
     THEN [wide |-> wide, new_width |-> new_width, new_height |-> new_height,
           paste_x |-> t.x, paste_y |-> t.y, paste_w |-> t.w, paste_h |-> t.h,
           crop_x |-> Max(0, FloorDiv(new_width - t.w, 2)),
           crop_y |-> Max(0, FloorDiv(new_height - t.h, 2))]
     ELSE [wide |-> wide, new_width |-> new_width, new_height |-> new_height,
           paste_x |-> offset_x, paste_y |-> offset_y,
           paste_w |-> new_width, paste_h |-> new_height,
           crop_x |-> 0, crop_y |-> 0]

(***************************************************************************)
(* get_screen_resolution (the same function in both programs).             *)
(* A str is the sequence of its characters.  The result of running         *)
(* hyprctl monitors  is a record: kind is "missing" (no such program,      *)
(* subprocess.run raises FileNotFoundError), "timeout" (it raises          *)
(* TimeoutExpired) or "ran", with the returncode and the stdout.           *)
(***************************************************************************)
DIGITS == <<"0", "1", "2", "3", "4", "5", "6", "7", "8", "9">>

\* sub in s
Contains(s, sub) ==
  \E i \in 0..(Len(s) - Len(sub)) : SubSeq(s, i + 1, i + Len(sub)) = sub

\* the k-th smallest member of the set P of numbers
Nth(P, k) == CHOOSE q \in P : Cardinality({ r \in P : r < q }) = k - 1

\* s.split(ch): the pieces between the occurrences of ch, empty ones kept
SplitOn(s, ch) ==
  LET P == { i \in 1..Len(s) : s[i] = ch }
      n == Cardinality(P)
      cut(k) == IF k = 0 THEN 0 ELSE IF k = n + 1 THEN Len(s) + 1 ELSE Nth(P, k)
  IN [k \in 1..(n + 1) |-> SubSeq(s, cut(k - 1) + 1, cut(k) - 1)]

\* s.split(): the pieces between runs of blanks, empty ones dropped
SplitBlanks(s) ==
  LET nonempty(t) == t # << >>
  IN SelectSeq(SplitOn(s, " "), nonempty)

\* s.strip()
Strip(s) ==
  LET P == { i \in 1..Len(s) : s[i] # " " }
  IN IF P = {} THEN << >>
     ELSE SubSeq(s, Nth(P, 1), Nth(P, Cardinality(P)))

\* int(s) succeeds: an optional sign and at least one digit, nothing else
IsInt(s) ==
  LET body == IF s # << >> /\ s[1] \in {"+", "-"} THEN Tail(s) ELSE s
  IN /\ body # << >>
     /\ \A i \in DOMAIN body : \E d \in DOMAIN DIGITS : DIGITS[d] = body[i]

RECURSIVE DigitsValue(_)
DigitsValue(s) ==
  IF s = << >> THEN 0
  ELSE 10 * DigitsValue(SubSeq(s, 1, Len(s) - 1))
       + (CHOOSE d \in DOMAIN DIGITS : DIGITS[d] = s[Len(s)]) - 1

\* int(s), where it succeeds
IntOf(s) ==
  IF s[1] = "-" THEN 0 - DigitsValue(Tail(s))
  ELSE IF s[1] = "+" THEN DigitsValue(Tail(s))
  ELSE DigitsValue(s)

\* 'HDMI' in line or 'DP' in line or 'eDP' in line
has_port(line) ==
  \/ Contains(line, <<"H", "D", "M", "I">>)
  \/ Contains(line, <<"D", "P">>)
  \/ Contains(line, <<"e", "D", "P">>)

\* map(int, ...) or the unpacking into width, height raises
ValueError == <<"ValueError">>

\* for part in parts, from the j-th part on: the (width, height) returned,
\* ValueError where one is raised, None where the loop ends without a return
RECURSIVE scan_parts(_, _)
scan_parts(parts, j) ==
  IF j > Len(parts) THEN None
  ELSE LET part == parts[j]
       IN IF Contains(part, <<"x">>) /\ Contains(part, <<"@">>)
          THEN LET resolution_part == Strip(SplitOn(part, "@")[1])
               IN IF Contains(resolution_part, <<"x">>)
                  THEN LET fields == SplitOn(resolution_part, "x")
                       IN IF Len(fields) = 2 /\ IsInt(fields[1]) /\ IsInt(fields[2])
                          THEN <<IntOf(fields[1]), IntOf(fields[2])>>
                          ELSE ValueError
                  ELSE scan_parts(parts, j + 1)
          ELSE scan_parts(parts, j + 1)

\* for line in lines, from the i-th line on
RECURSIVE scan_lines(_, _)
scan_lines(lines, i) ==
  IF i > Len(lines) THEN None
  ELSE LET line == lines[i]
       IN IF /\ Contains(line, <<"@">>)
             /\ Contains(line, <<"x">>)
             /\ has_port(line)
          THEN LET r == scan_parts(SplitBlanks(line), 1)
               IN IF Len(r) = 0 THEN scan_lines(lines, i + 1) ELSE r
          ELSE scan_lines(lines, i + 1)

\* get_screen_resolution without the test of the return code
get_screen_resolution_any_exit(pr) ==
  IF pr.kind # "ran" THEN DEFAULT_RESOLUTION
  ELSE LET r == scan_lines(SplitOn(pr.stdout, "\n"), 1)
       IN IF Len(r) = 2 THEN r ELSE DEFAULT_RESOLUTION

\* get_screen_resolution(): every exception is caught and leads, like the
\* end of the loop, to  return 5120, 1440
get_screen_resolution(pr) ==
  IF pr.kind # "ran" THEN DEFAULT_RESOLUTION
  ELSE IF pr.returncode # 0 THEN DEFAULT_RESOLUTION
  ELSE LET r == scan_lines(SplitOn(pr.stdout, "\n"), 1)
       IN IF Len(r) = 2 THEN r ELSE DEFAULT_RESOLUTION

(***************************************************************************)
(* What  hyprctl monitors  may print: lines of these kinds, MaxLines of    *)
(* them at most.                                                           *)
(***************************************************************************)
MaxLines == 2

\* "Monitor DP-1 (ID 0):": a port marker, no resolution
LINE_1 ==
  <<"M", "o", "n", "i", "t", "o", "r", " ", "D", "P", "-", "1", " ", "(",
  "I", "D", " ", "0", ")", ":">>

\* "  1920x1080@60 at 0x0": a resolution, no port marker
LINE_2 ==
  <<" ", " ", "1", "9", "2", "0", "x", "1", "0", "8", "0", "@", "6", "0",
  " ", "a", "t", " ", "0", "x", "0">>

\* "DP-1 1920x1080@60": a port marker and a resolution
LINE_3 ==
  <<"D", "P", "-", "1", " ", "1", "9", "2", "0", "x", "1", "0", "8", "0",
  "@", "6", "0">>

\* "HDMI-A-1 2560x1440@144 1x1@1": two resolutions
LINE_4 ==
  <<"H", "D", "M", "I", "-", "A", "-", "1", " ", "2", "5", "6", "0", "x",
  "1", "4", "4", "0", "@", "1", "4", "4", " ", "1", "x", "1", "@", "1">>

\* "eDP-1 19x@60 800x600@60": a height that is no number, then a resolution
LINE_5 ==
  <<"e", "D", "P", "-", "1", " ", "1", "9", "x", "@", "6", "0", " ", "8",
  "0", "0", "x", "6", "0", "0", "@", "6", "0">>

\* "DP-2 1x2x3@60": three numbers
LINE_6 ==
  <<"D", "P", "-", "2", " ", "1", "x", "2", "x", "3", "@", "6", "0">>

\* "DP-3 60@x 800x600@75": an x only after the @, then a resolution
LINE_7 ==
  <<"D", "P", "-", "3", " ", "6", "0", "@", "x", " ", "8", "0", "0", "x",
  "6", "0", "0", "@", "7", "5">>

\* "HDMI x @": a port marker, an x and an @ in different parts
LINE_8 ==
  <<"H", "D", "M", "I", " ", "x", " ", "@">>

\* "": an empty line
LINE_9 ==
  << >>

ProbeLines == {LINE_1, LINE_2, LINE_3, LINE_4, LINE_5,
               LINE_6, LINE_7, LINE_8, LINE_9}

\* "\n".join(lines)
RECURSIVE JoinLines(_)
JoinLines(lines) ==
  IF Len(lines) = 0 THEN << >>
  ELSE IF Len(lines) = 1 THEN lines[1]
  ELSE lines[1] \o <<"\n">> \o JoinLines(Tail(lines))

ProbeOutputs ==
  { JoinLines(ls) : ls \in UNION { [1..n -> ProbeLines] : n \in 0..MaxLines } }

ProbeInputs ==
  { [kind |-> "missing", returncode |-> 0, stdout |-> << >>],
    [kind |-> "timeout", returncode |-> 0, stdout |-> << >>] }
  \cup [kind : {"ran"}, returncode : {0, 1}, stdout : ProbeOutputs]

(***************************************************************************)
(* Initial state: the call of the layout function with n images.           *)
(***************************************************************************)
Init ==
  /\ mode \in {"A", "B"}
  /\ \E n \in 0..(IF mode = "A" THEN MaxImagesA ELSE MaxImagesB) :
       images \in ShuffledQueues(n)
  /\ grid = IF mode = "A" THEN EmptyGrid(Chaos_GRID_ROWS, Chaos_GRID_COLS)
                          ELSE EmptyGrid(zen3_GRID_ROWS, zen3_GRID_COLS)
  /\ image_idx = 0
  /\ placement_attempts = 0
  /\ chunk_i = 0
  /\ canvas = << >>
  /\ pc = "start"
  /\ ret = "pending"
  /\ failed = {}
  /\ screen = DEFAULT_RESOLUTION
  /\ probe = None
  /\ main_pc = "none"
  /\ file = "absent"
  /\ applied = FALSE
  /\ out = << >>
  /\ img_size = None
  /\ target = None
  /\ fitted = None
  /\ rects = << >>

\* if not images: return None
ReturnNone ==
  /\ pc = "start"
  /\ Len(images) = 0
  /\ pc' = "done"
  /\ ret' = "None"
  /\ UNCHANGED <<mode, images, grid, image_idx, placement_attempts, chunk_i,
                 canvas, failed>>
  /\ UNCHANGED env_vars

\* canvas, grid, shuffle, image_idx = 0 ...
Begin ==
  /\ pc = "start"
  /\ Len(images) > 0
  /\ pc' = "loop"
  /\ UNCHANGED <<mode, images, grid, image_idx, placement_attempts, chunk_i,
                 canvas, ret, failed>>
  /\ UNCHANGED env_vars

\* ChaosIteration without  image_idx += 1
ChaosIteration_same_image ==
  /\ mode = "A"
  /\ pc = "loop"
  /\ chunk_i < Chaos_sequence_len
  /\ LET c == Chaos_CHUNKS[(chunk_i % Len(Chaos_CHUNKS)) + 1]
         p == Chaos_scan(grid, c[1], c[2], 0)
     IN IF p = None
        THEN /\ chunk_i' = chunk_i + 1
                /\ failed' = failed \cup {c}
                /\ UNCHANGED <<grid, image_idx, canvas, pc, ret>>
           ELSE IF image_idx >= Len(images)
           THEN /\ pc' = "done"
                /\ ret' = "canvas"
                /\ UNCHANGED <<grid, image_idx, canvas, chunk_i, failed>>
           ELSE /\ canvas' = paste(canvas, images[image_idx + 1], c[1], c[2], p[1], p[2])
                /\ grid' = Chaos_occupy(grid, c[1], c[2], p[1], p[2])
                /\ chunk_i' = chunk_i + 1
                /\ UNCHANGED <<image_idx, pc, ret, failed>>
  /\ UNCHANGED <<mode, images, placement_attempts>>
  /\ UNCHANGED env_vars

\* ChaosIteration reusing the images in a cycle instead of returning
ChaosIteration_wraps ==
  /\ mode = "A"
  /\ pc = "loop"
  /\ chunk_i < Chaos_sequence_len
  /\ LET c == Chaos_CHUNKS[(chunk_i % Len(Chaos_CHUNKS)) + 1]
         p == Chaos_scan(grid, c[1], c[2], 0)
     IN IF p = None
        THEN /\ chunk_i' = chunk_i + 1
                /\ failed' = failed \cup {c}
                /\ UNCHANGED <<grid, image_idx, canvas, pc, ret>>
           ELSE /\ image_idx' = image_idx + 1
                /\ canvas' = paste(canvas, images[(image_idx % Len(images)) + 1],
                                   c[1], c[2], p[1], p[2])
                /\ grid' = Chaos_occupy(grid, c[1], c[2], p[1], p[2])
                /\ chunk_i' = chunk_i + 1
                /\ UNCHANGED <<pc, ret, failed>>
  /\ UNCHANGED <<mode, images, placement_attempts>>
  /\ UNCHANGED env_vars

\* An iteration scans the rows from its own turn on.
ChaosIteration_scans_from_turn ==
  /\ mode = "A"
  /\ pc = "loop"
  /\ chunk_i < Chaos_sequence_len
  /\ LET c == Chaos_CHUNKS[(chunk_i % Len(Chaos_CHUNKS)) + 1]
         p == Chaos_scan(grid, c[1], c[2], chunk_i % Chaos_GRID_ROWS)
     IN IF p = None
        THEN /\ chunk_i' = chunk_i + 1
             /\ failed' = failed \cup {c}
             /\ UNCHANGED <<grid, image_idx, canvas, pc, ret>>
        ELSE IF image_idx >= Len(images)
        THEN /\ pc' = "done" /\ ret' = "canvas"
             /\ UNCHANGED <<grid, image_idx, canvas, chunk_i, failed>>
        ELSE /\ image_idx' = image_idx + 1
             /\ canvas' = paste(canvas, images[image_idx + 1], c[1], c[2], p[1], p[2])
             /\ grid' = Chaos_occupy(grid, c[1], c[2], p[1], p[2])
             /\ chunk_i' = chunk_i + 1
             /\ UNCHANGED <<pc, ret, failed>>
  /\ UNCHANGED <<mode, images, placement_attempts>>
  /\ UNCHANGED env_vars

\* The shape of an iteration is chosen by the image to place.
ChaosIteration_by_image ==
  /\ mode = "A"
  /\ pc = "loop"
  /\ chunk_i < Chaos_sequence_len
  /\ LET c == Chaos_CHUNKS[(images[Min(image_idx + 1, Len(images))]
                              % Len(Chaos_CHUNKS)) + 1]
         p == Chaos_scan(grid, c[1], c[2], 0)
     IN IF p = None
        THEN /\ chunk_i' = chunk_i + 1
             /\ failed' = failed \cup {c}
             /\ UNCHANGED <<grid, image_idx, canvas, pc, ret>>
        ELSE IF image_idx >= Len(images)
        THEN /\ pc' = "done" /\ ret' = "canvas"
             /\ UNCHANGED <<grid, image_idx, canvas, chunk_i, failed>>
        ELSE /\ image_idx' = image_idx + 1
             /\ canvas' = paste(canvas, images[image_idx + 1], c[1], c[2], p[1], p[2])
             /\ grid' = Chaos_occupy(grid, c[1], c[2], p[1], p[2])
             /\ chunk_i' = chunk_i + 1
             /\ UNCHANGED <<pc, ret, failed>>
  /\ UNCHANGED <<mode, images, placement_attempts>>
  /\ UNCHANGED env_vars

(***************************************************************************)
(* Mode A: one iteration of  for chunk_w, chunk_h in CHUNKS * 100          *)
(***************************************************************************)
ChaosIteration ==
  /\ mode = "A"
  /\ pc = "loop"
  /\ chunk_i < Chaos_sequence_len
  /\ LET c == Chaos_CHUNKS[(chunk_i % Len(Chaos_CHUNKS)) + 1]
         p == Chaos_scan(grid, c[1], c[2], 0)
     IN IF p = None
        THEN \* placed stays False: next chunk
                /\ chunk_i' = chunk_i + 1
                /\ failed' = failed \cup {c}
                /\ UNCHANGED <<grid, image_idx, canvas, pc, ret>>
           ELSE IF image_idx >= Len(images)
           THEN \* return canvas
                /\ pc' = "done"
                /\ ret' = "canvas"
                /\ UNCHANGED <<grid, image_idx, canvas, chunk_i, failed>>
           ELSE /\ image_idx' = image_idx + 1
                /\ canvas' = paste(canvas, images[image_idx + 1], c[1], c[2], p[1], p[2])
                /\ grid' = Chaos_occupy(grid, c[1], c[2], p[1], p[2])
                /\ chunk_i' = chunk_i + 1
                /\ UNCHANGED <<pc, ret, failed>>
  /\ UNCHANGED <<mode, images, placement_attempts>>
  /\ UNCHANGED env_vars

\* the sequence is used up: return canvas
ChaosReturn ==
  /\ mode = "A"
  /\ pc = "loop"
  /\ chunk_i >= Chaos_sequence_len
  /\ pc' = "done"
  /\ ret' = "canvas"
  /\ UNCHANGED <<mode, images, grid, image_idx, placement_attempts, chunk_i,
                 canvas, failed>>
  /\ UNCHANGED env_vars

(***************************************************************************)
(* Mode B: the while loop                                                  *)
(***************************************************************************)
max_attempts == Len(images) * ATTEMPT_FACTOR

\* zen3IterationFor without  placement_attempts += 1
zen3IterationFor_uncounted(c) ==
  /\ mode = "B"
  /\ pc = "loop"
  /\ image_idx < Len(images) /\ placement_attempts < max_attempts
  /\ UNCHANGED placement_attempts
  /\ \E first \in find_best_position(grid, c[1], c[2]) :
       \E cp \in (IF first = None
                   THEN try_fallbacks(grid, c, 1)
                   ELSE { <<c, first>> }) :
         IF cp[2] = None
            THEN \* continue
                 UNCHANGED <<grid, image_idx, canvas>>
            ELSE /\ image_idx' = image_idx + 1
                 /\ canvas' = paste(canvas, images[image_idx + 1],
                                    cp[1][1], cp[1][2], cp[2][1], cp[2][2])
                 /\ grid' = zen3_occupy(grid, cp[1][1], cp[1][2], cp[2][1], cp[2][2])
  /\ UNCHANGED <<mode, images, chunk_i, pc, ret, failed>>
  /\ UNCHANGED env_vars

\* zen3IterationFor with break in the place of continue
zen3IterationFor_break(c) ==
  /\ mode = "B"
  /\ pc = "loop"
  /\ image_idx < Len(images) /\ placement_attempts < max_attempts
  /\ placement_attempts' = placement_attempts + 1
  /\ \E first \in find_best_position(grid, c[1], c[2]) :
       \E cp \in (IF first = None
                   THEN try_fallbacks(grid, c, 1)
                   ELSE { <<c, first>> }) :
         IF cp[2] = None
            THEN /\ pc' = "done"
                 /\ ret' = "canvas"
                 /\ UNCHANGED <<grid, image_idx, canvas>>
            ELSE /\ image_idx' = image_idx + 1
                 /\ canvas' = paste(canvas, images[image_idx + 1],
                                    cp[1][1], cp[1][2], cp[2][1], cp[2][2])
                 /\ grid' = zen3_occupy(grid, cp[1][1], cp[1][2], cp[2][1], cp[2][2])
                 /\ UNCHANGED <<pc, ret>>
  /\ UNCHANGED <<mode, images, chunk_i, failed>>
  /\ UNCHANGED env_vars

\* one iteration of the while loop in which get_random_chunk() returns c:
\* placement_attempts += 1, find_best_position, the fallback shapes, then
\* continue (skip) or paste and occupy
zen3IterationFor(c) ==
  /\ mode = "B"
  /\ pc = "loop"
  /\ image_idx < Len(images) /\ placement_attempts < max_attempts
  /\ placement_attempts' = placement_attempts + 1
  /\ \E first \in find_best_position(grid, c[1], c[2]) :
       \E cp \in (IF first = None
                   THEN try_fallbacks(grid, c, 1)
                   ELSE { <<c, first>> }) :
         IF cp[2] = None
            THEN \* continue
                 UNCHANGED <<grid, image_idx, canvas>>
            ELSE /\ image_idx' = image_idx + 1
                 /\ canvas' = paste(canvas, images[image_idx + 1],
                                    cp[1][1], cp[1][2], cp[2][1], cp[2][2])
                 /\ grid' = zen3_occupy(grid, cp[1][1], cp[1][2], cp[2][1], cp[2][2])
  /\ UNCHANGED <<mode, images, chunk_i, pc, ret, failed>>
  /\ UNCHANGED env_vars

\* one iteration of the while loop
zen3Iteration == \E c \in get_random_chunk : zen3IterationFor(c)

\* the while condition is false: return canvas
zen3Return ==
  /\ mode = "B"
  /\ pc = "loop"
  /\ ~(image_idx < Len(images) /\ placement_attempts < max_attempts)
  /\ pc' = "done"
  /\ ret' = "canvas"
  /\ UNCHANGED <<mode, images, grid, image_idx, placement_attempts, chunk_i,
                 canvas, failed>>
  /\ UNCHANGED env_vars

Next ==
  \/ ReturnNone
  \/ Begin
  \/ ChaosIteration
  \/ ChaosReturn
  \/ zen3Iteration
  \/ zen3Return

Spec == Init /\ [][Next]_vars

\* A run of create_freeflow_layout alone.  The interpreter runs the single
\* thread until the function returns, so a step that can be taken is taken.
zen3Init == Init /\ mode = "B"

zen3Next ==
  \/ ReturnNone
  \/ Begin
  \/ zen3Iteration
  \/ zen3Return

zen3FairSpec == zen3Init /\ [][zen3Next]_vars /\ WF_vars(zen3Next)

(***************************************************************************)
(* main(): the resolution probe.                                           *)
(***************************************************************************)
\* screen_width, screen_height = get_screen_resolution()
MainProbe ==
  /\ main_pc = "start"
  /\ screen' = get_screen_resolution(probe)
  /\ main_pc' = "probed"
  /\ UNCHANGED layout_vars
  /\ UNCHANGED <<probe, file, applied, out, img_size, target, fitted, rects>>

\* One call of get_screen_resolution, on any of the probe inputs
ProbeInit ==
  /\ mode \in {"A", "B"}
  /\ images = << >>
  /\ grid = << >>
  /\ image_idx = 0
  /\ placement_attempts = 0
  /\ chunk_i = 0
  /\ canvas = << >>
  /\ pc = "start"
  /\ ret = "pending"
  /\ failed = {}
  /\ screen = None
  /\ probe \in ProbeInputs
  /\ main_pc = "start"
  /\ file = "absent"
  /\ applied = FALSE
  /\ out = << >>
  /\ img_size = None
  /\ target = None
  /\ fitted = None
  /\ rects = << >>

ProbeNext == MainProbe

ProbeSpec == ProbeInit /\ [][ProbeNext]_vars

(***************************************************************************)
(* main(): probe, load, layout, save, apply.  The layout function runs     *)
(* with the probed resolution.  aspect_chunk = w / h  raises               *)
(* ZeroDivisionError when the target rectangle of a placement has height   *)
(* 0; nothing in the layout function or in main() catches it.  The         *)
(* resolutions taken here keep widths positive and heights non-negative.   *)
(***************************************************************************)
\* str(n) for a natural number n
RECURSIVE Decimal(_)
Decimal(n) ==
  IF n < 10 THEN <<DIGITS[n + 1]>>
  ELSE Decimal(n \div 10) \o <<DIGITS[(n % 10) + 1]>>

\* A screen height that leaves no room for the cells of mode m: cell_height = 0
FlatHeight(m) ==
  IF m = "A"
  THEN 2 * Chaos_OUTER_PADDING + (Chaos_GRID_ROWS - 1) * Chaos_INNER_PADDING
  ELSE 2 * zen3_OUTER_PADDING + (zen3_GRID_ROWS - 1) * zen3_INNER_PADDING

\* "DP-1 5120x<height>@60"
FlatLine(m) ==
  <<"D", "P", "-", "1", " ", "5", "1", "2", "0", "x">> \o Decimal(FlatHeight(m))
    \o <<"@", "6", "0">>

\* Mode A: hyprctl is missing or reports a flat screen;
\* Mode B: hyprctl reports 1920x1080 or a flat screen
MainProbeInputs(m) ==
  { IF m = "A"
    THEN [kind |-> "missing", returncode |-> 0, stdout |-> << >>]
    ELSE [kind |-> "ran", returncode |-> 0, stdout |-> JoinLines(<<LINE_1, LINE_3>>)],
    [kind |-> "ran", returncode |-> 0, stdout |-> FlatLine(m)] }

MainInit ==
  /\ mode \in {"A", "B"}
  /\ \E n \in 0..(IF mode = "A" THEN MaxImagesA ELSE MaxImagesB) :
       images \in ShuffledQueues(n)
  /\ grid = IF mode = "A" THEN EmptyGrid(Chaos_GRID_ROWS, Chaos_GRID_COLS)
                          ELSE EmptyGrid(zen3_GRID_ROWS, zen3_GRID_COLS)
  /\ image_idx = 0
  /\ placement_attempts = 0
  /\ chunk_i = 0
  /\ canvas = << >>
  /\ pc = "start"
  /\ ret = "pending"
  /\ failed = {}
  /\ screen = None
  /\ probe \in MainProbeInputs(mode)
  /\ main_pc = "start"
  /\ file = "absent"
  /\ applied = FALSE
  /\ out = << >>
  /\ img_size = None
  /\ target = None
  /\ fitted = None
  /\ rects = << >>

\* images = load_images(image_folder)
MainLoad ==
  /\ main_pc = "probed"
  /\ main_pc' = "loaded"
  /\ UNCHANGED layout_vars
  /\ UNCHANGED <<screen, probe, file, applied, out, img_size, target, fitted, rects>>

\* if not images: print("No images found."); return
MainNoImages ==
  /\ main_pc = "loaded"
  /\ Len(images) = 0
  /\ out' = Append(out, "No images found.")
  /\ main_pc' = "done"
  /\ UNCHANGED layout_vars
  /\ UNCHANGED <<screen, probe, file, applied, img_size, target, fitted, rects>>

\* main() without  if not images
MainCallLayout_unchecked ==
  /\ main_pc = "loaded"
  /\ main_pc' = "layout"
  /\ UNCHANGED layout_vars
  /\ UNCHANGED <<screen, probe, file, applied, out, img_size, target, fitted, rects>>

\* wallpaper = create_..._layout(images, screen_width, screen_height)
MainCallLayout ==
  /\ main_pc = "loaded"
  /\ Len(images) > 0
  /\ main_pc' = "layout"
  /\ UNCHANGED layout_vars
  /\ UNCHANGED <<screen, probe, file, applied, out, img_size, target, fitted, rects>>

\* The target rectangle of the paste just logged
LastTarget ==
  LET e == canvas[Len(canvas)]
  IN IF mode = "A" THEN Chaos_target(screen, e.w, e.h, e.row, e.col)
                   ELSE zen3_target(screen, e.w, e.h, e.row, e.col)

\* An iteration of the Mode A loop whose division is defined
MainChaosIteration ==
  /\ main_pc = "layout"
  /\ ChaosIteration
  /\ canvas' # canvas => LastTarget'.h # 0

\* An iteration of the Mode A loop up to  aspect_chunk = w / h  with h = 0:
\* the image is taken, nothing is pasted or marked, the exception leaves the
\* function
ChaosRaise ==
  /\ main_pc = "layout"
  /\ mode = "A"
  /\ pc = "loop"
  /\ chunk_i < Chaos_sequence_len
  /\ LET c == Chaos_CHUNKS[(chunk_i % Len(Chaos_CHUNKS)) + 1]
         p == Chaos_scan(grid, c[1], c[2], 0)
     IN /\ p # None
        /\ image_idx < Len(images)
        /\ Chaos_target(screen, c[1], c[2], p[1], p[2]).h = 0
  /\ image_idx' = image_idx + 1
  /\ pc' = "done"
  /\ ret' = "raised"
  /\ UNCHANGED <<mode, images, grid, placement_attempts, chunk_i, canvas, failed>>
  /\ UNCHANGED env_vars

\* An iteration of the Mode B loop whose division is defined
MainZen3Iteration ==
  /\ main_pc = "layout"
  /\ zen3Iteration
  /\ canvas' # canvas => LastTarget'.h # 0

\* An iteration of the Mode B loop up to  aspect_chunk = w / h  with h = 0
zen3Raise ==
  /\ main_pc = "layout"
  /\ mode = "B"
  /\ pc = "loop"
  /\ image_idx < Len(images) /\ placement_attempts < max_attempts
  /\ \E c \in get_random_chunk :
       \E first \in find_best_position(grid, c[1], c[2]) :
         \E cp \in (IF first = None
                     THEN try_fallbacks(grid, c, 1)
                     ELSE { <<c, first>> }) :
           /\ cp[2] # None
           /\ zen3_target(screen, cp[1][1], cp[1][2], cp[2][1], cp[2][2]).h = 0
  /\ placement_attempts' = placement_attempts + 1
  /\ image_idx' = image_idx + 1
  /\ pc' = "done"
  /\ ret' = "raised"
  /\ UNCHANGED <<mode, images, grid, chunk_i, canvas, failed>>
  /\ UNCHANGED env_vars

\* The exception leaves main(): the process ends with a traceback
MainUncaught ==
  /\ main_pc = "layout"
  /\ pc = "done" /\ ret = "raised"
  /\ main_pc' = "crashed"
  /\ UNCHANGED layout_vars
  /\ UNCHANGED <<screen, probe, file, applied, out, img_size, target, fitted, rects>>

\* wallpaper.save(output_filename, quality=95) succeeds
MainSaveOk ==
  /\ main_pc = "layout"
  /\ pc = "done" /\ ret = "canvas"
  /\ file' = "written"
  /\ out' = Append(out, "Wallpaper saved")
  /\ main_pc' = "applying"
  /\ UNCHANGED layout_vars
  /\ UNCHANGED <<screen, probe, applied, img_size, target, fitted, rects>>

\* wallpaper.save raises: except Exception prints the warning
MainSaveFails ==
  /\ main_pc = "layout"
  /\ pc = "done" /\ ret = "canvas"
  /\ out' = Append(out, "Error saving or setting wallpaper")
  /\ main_pc' = "done"
  /\ UNCHANGED layout_vars
  /\ UNCHANGED <<screen, probe, file, applied, img_size, target, fitted, rects>>

\* subprocess.run(["swww", "img", output_filename], check=True) succeeds
MainApplyOk ==
  /\ main_pc = "applying"
  /\ applied' = TRUE
  /\ out' = Append(out, "Wallpaper applied")
  /\ main_pc' = "done"
  /\ UNCHANGED layout_vars
  /\ UNCHANGED <<screen, probe, file, img_size, target, fitted, rects>>

\* subprocess.run raises, because swww is missing (it has not run) or exits
\* non-zero (it has run): except Exception prints the warning
MainApplyFails ==
  /\ main_pc = "applying"
  /\ applied' \in BOOLEAN
  /\ out' = Append(out, "Error saving or setting wallpaper")
  /\ main_pc' = "done"
  /\ UNCHANGED layout_vars
  /\ UNCHANGED <<screen, probe, file, img_size, target, fitted, rects>>

\* One run of main().  The layout function is entered with images only, so
\* its  return None  and the  print("Failed to create wallpaper")  of main()
\* cannot be taken and are no steps of a run.
MainNext ==
  \/ MainProbe
  \/ MainLoad
  \/ MainNoImages
  \/ MainCallLayout
  \/ main_pc = "layout" /\ Begin
  \/ MainChaosIteration
  \/ ChaosRaise
  \/ main_pc = "layout" /\ ChaosReturn
  \/ MainZen3Iteration
  \/ zen3Raise
  \/ main_pc = "layout" /\ zen3Return
  \/ MainUncaught
  \/ MainSaveOk
  \/ MainSaveFails
  \/ MainApplyOk
  \/ MainApplyFails

MainSpec == MainInit /\ [][MainNext]_vars

(***************************************************************************)
(* The pixel geometry of Mode B alone: the target rectangles of two        *)
(* in-bounds placements, on screens that leave every cell a pixel or more. *)
(***************************************************************************)
\* The least screen extent with cells of one pixel
MinExtent(outer, inner, n) == 2 * outer + (n - 1) * inner + n

GeomScreens ==
  LET w0 == MinExtent(zen3_OUTER_PADDING, zen3_INNER_PADDING, zen3_GRID_COLS)
      h0 == MinExtent(zen3_OUTER_PADDING, zen3_INNER_PADDING, zen3_GRID_ROWS)
  IN { w0, w0 + 1, w0 + zen3_GRID_COLS, DEFAULT_RESOLUTION[1] }
       \X { h0, h0 + zen3_GRID_ROWS + 1, DEFAULT_RESOLUTION[2] }

GeomInit ==
  /\ mode = "B"
  /\ images = << >>
  /\ grid = EmptyGrid(zen3_GRID_ROWS, zen3_GRID_COLS)
  /\ image_idx = 0
  /\ placement_attempts = 0
  /\ chunk_i = 0
  /\ canvas = << >>
  /\ pc = "start"
  /\ ret = "pending"
  /\ failed = {}
  /\ screen \in GeomScreens
  /\ probe = None
  /\ main_pc = "none"
  /\ file = "absent"
  /\ applied = FALSE
  /\ out = << >>
  /\ img_size = None
  /\ target = None
  /\ fitted = None
  /\ rects = << >>

\* x, y, w, h of a placement of a catalog shape that lies within the grid
zen3Geometry ==
  /\ Len(rects) < 2
  /\ \E k \in DOMAIN zen3_CHUNKS :
       \E row \in 0..(zen3_GRID_ROWS - 1), col \in 0..(zen3_GRID_COLS - 1) :
         LET c == zen3_CHUNKS[k]
         IN /\ zen3_fits(grid, c[1], c[2], row, col)
            /\ rects' = Append(rects,
                 [chunk_w |-> c[1], chunk_h |-> c[2], row |-> row, col |-> col,
                  rect |-> zen3_target(screen, c[1], c[2], row, col)])
  /\ UNCHANGED layout_vars
  /\ UNCHANGED <<screen, probe, main_pc, file, applied, out, img_size, target, fitted>>

GeomNext == zen3Geometry

GeomSpec == GeomInit /\ [][GeomNext]_vars

(***************************************************************************)
(* One fit of one image to one target rectangle, in either program.        *)
(***************************************************************************)
MaxFitW == 9
MaxFitH == 7

FitInit ==
  /\ mode \in {"A", "B"}
  /\ images = << >>
  /\ grid = << >>
  /\ image_idx = 0
  /\ placement_attempts = 0
  /\ chunk_i = 0
  /\ canvas = << >>
  /\ pc = "start"
  /\ ret = "pending"
  /\ failed = {}
  /\ screen = DEFAULT_RESOLUTION
  /\ probe = None
  /\ main_pc = "none"
  /\ file = "absent"
  /\ applied = FALSE
  /\ out = << >>
  /\ img_size \in (1..MaxFitW) \X (1..MaxFitH)
  /\ \E w \in 1..MaxFitW, h \in 1..MaxFitH :
       target = [x |-> IF mode = "A" THEN Chaos_OUTER_PADDING ELSE zen3_OUTER_PADDING,
                 y |-> IF mode = "A" THEN Chaos_OUTER_PADDING ELSE zen3_OUTER_PADDING,
                 w |-> w, h |-> h]
  /\ fitted = None
  /\ rects = << >>

\* Chaos.py lines 98 to 111
ChaosFit ==
  /\ mode = "A"
  /\ fitted = None
  /\ fitted' = Chaos_fit(img_size[1], img_size[2], target)
  /\ UNCHANGED layout_vars
  /\ UNCHANGED <<screen, probe, main_pc, file, applied, out, img_size, target, rects>>

\* zen3.py lines 164 to 187
zen3Fit ==
  /\ mode = "B"
  /\ fitted = None
  /\ fitted' = zen3_fit(img_size[1], img_size[2], target)
  /\ UNCHANGED layout_vars
  /\ UNCHANGED <<screen, probe, main_pc, file, applied, out, img_size, target, rects>>

FitNext ==
  \/ ChaosFit
  \/ zen3Fit

FitSpec == FitInit /\ [][FitNext]_vars

TypeOK ==
  /\ mode \in {"A", "B"}
  /\ pc \in {"start", "loop", "done"}
  /\ ret \in {"pending", "None", "canvas"}
  /\ image_idx \in 0..Len(images)
  /\ placement_attempts \in Nat
  /\ chunk_i \in 0..Chaos_sequence_len

(***************************************************************************)
(* Vocabulary of the properties, stated on the grid and the canvas alone.  *)
(***************************************************************************)
GridRows == IF mode = "A" THEN Chaos_GRID_ROWS ELSE zen3_GRID_ROWS
GridCols == IF mode = "A" THEN Chaos_GRID_COLS ELSE zen3_GRID_COLS

\* the grid cells of a pasted rectangle
CellsOf(p) == (p.row..(p.row + p.h - 1)) \X (p.col..(p.col + p.w - 1))

\* the anchors at which a w x h rectangle is in bounds and entirely free
FreeAnchors(g, rows, cols, w, h) ==
  { a \in (0..(rows - 1)) \X (0..(cols - 1)) :
      /\ a[1] + h <= rows
      /\ a[2] + w <= cols
      /\ \A r \in a[1]..(a[1] + h - 1) : \A c \in a[2]..(a[2] + w - 1) : ~g[r][c] }

GridFull == \A r \in DOMAIN grid : \A c \in DOMAIN grid[r] : grid[r][c]

\* C1: no grid cell is covered by two pasted rectangles, and the occupied
\* cells are exactly the cells of the pasted rectangles (so every occupy was
\* made on cells that were free).
C1_NoOverlap ==
  /\ \A i \in DOMAIN canvas : \A j \in DOMAIN canvas :
       i < j => CellsOf(canvas[i]) \cap CellsOf(canvas[j]) = {}
  /\ \A r \in DOMAIN grid : \A c \in DOMAIN grid[r] :
       grid[r][c] <=> \E i \in DOMAIN canvas : <<r, c>> \in CellsOf(canvas[i])

\* Mode B filled its grid with more than one rectangle
C1_Witness ==
  mode = "B" /\ GridFull /\ Len(canvas) >= 2

\* C2: every placed rectangle lies inside the grid:
\* 0 <= row, row + h <= GRID_ROWS, 0 <= col, col + w <= GRID_COLS.
C2_InBounds ==
  \A i \in DOMAIN canvas :
    /\ 0 <= canvas[i].row
    /\ canvas[i].row + canvas[i].h <= GridRows
    /\ 0 <= canvas[i].col
    /\ canvas[i].col + canvas[i].w <= GridCols

\* Mode B placed a 1 x 1 chunk in the last cell of the grid as second rectangle
C2_Witness ==
  /\ mode = "B" /\ pc = "loop" /\ Len(canvas) = 2
  /\ canvas[2].w = 1 /\ canvas[2].h = 1
  /\ canvas[2].row = zen3_GRID_ROWS - 1 /\ canvas[2].col = zen3_GRID_COLS - 1

\* C3: Mode B always terminates, and when it has terminated the loop has run
\* at most 3 x N iterations (placement_attempts counts the iterations), also
\* when the grid is full while images remain.
C3_Terminates ==
  <>[](mode = "B" => /\ pc = "done"
                     /\ placement_attempts <= 3 * Len(images))

\* Mode B returned because of the attempt cap, the grid full, images left
C3_Witness ==
  /\ mode = "B" /\ pc = "done" /\ ret = "canvas"
  /\ placement_attempts = 3 * Len(images)
  /\ image_idx < Len(images)
  /\ GridFull

\* C4: occupancy is monotone: no step sets an occupied cell back to free.
C4_Monotone ==
  [][\A r \in DOMAIN grid : \A c \in DOMAIN grid[r] : grid[r][c] => grid'[r][c]]_vars

\* Mode A returned with every cell of its grid occupied
C4_Witness ==
  mode = "A" /\ pc = "done" /\ GridFull

\* the smallest anchor of a set in (row, then col) order
LexMin(S) ==
  CHOOSE a \in S : \A b \in S : a[1] < b[1] \/ (a[1] = b[1] /\ a[2] <= b[2])

\* C5: in every Mode A iteration the shape of the iteration is pasted at the
\* lexicographically smallest (row, then col) anchor where it is in bounds
\* and entirely free; nothing is pasted when no such anchor exists; with such
\* an anchor and no image left the function returns.  A 2 x 1 shape on the
\* empty 6 x 24 grid is anchored at (0, 0).
C5_RowMajorFirst ==
  /\ Chaos_scan(EmptyGrid(Chaos_GRID_ROWS, Chaos_GRID_COLS), 2, 1, 0) = <<0, 0>>
  /\ [][(mode = "A" /\ pc = "loop" /\ chunk_i < Chaos_sequence_len) =>
          LET c == Chaos_CHUNKS[(chunk_i % Len(Chaos_CHUNKS)) + 1]
              F == FreeAnchors(grid, Chaos_GRID_ROWS, Chaos_GRID_COLS, c[1], c[2])
          IN IF F = {}
             THEN canvas' = canvas /\ grid' = grid /\ pc' = "loop"
             ELSE IF image_idx < Len(images)
             THEN /\ Len(canvas') = Len(canvas) + 1
                  /\ canvas'[Len(canvas')].w = c[1]
                  /\ canvas'[Len(canvas')].h = c[2]
                  /\ <<canvas'[Len(canvas')].row, canvas'[Len(canvas')].col>> = LexMin(F)
             ELSE canvas' = canvas /\ grid' = grid /\ pc' = "done"]_vars

\* Mode A pasted the 2 x 1 shape of its fourth cycle at (5, 10), the first
\* anchor left for it
C5_Witness ==
  /\ mode = "A" /\ Len(canvas) = 23
  /\ canvas[23].w = 2 /\ canvas[23].h = 1
  /\ canvas[23].row = 5 /\ canvas[23].col = 10

\* 20 x the score of anchor a for a w x h rectangle: the occupied cells of the
\* bounding box grown by one cell and clipped to the grid, less 0.1 per row
\* and 0.05 per column
BoxScore(g, w, h, a) ==
  20 * Cardinality({ rc \in (0..(zen3_GRID_ROWS - 1)) \X (0..(zen3_GRID_COLS - 1)) :
                       /\ a[1] - 1 <= rc[1] /\ rc[1] <= a[1] + h
                       /\ a[2] - 1 <= rc[2] /\ rc[2] <= a[2] + w
                       /\ g[rc[1]][rc[2]] })
  - 2 * a[1] - a[2]

\* position is a possible result of the heuristic planner for shape on g
PlannerResult(g, shape, pos) ==
  LET F == FreeAnchors(g, zen3_GRID_ROWS, zen3_GRID_COLS, shape[1], shape[2])
  IN /\ pos = None <=> F = {}
     /\ pos # None =>
          /\ pos \in F
          /\ Cardinality({ q \in F : BoxScore(g, shape[1], shape[2], q)
                                       > BoxScore(g, shape[1], shape[2], pos) }) <= 4

FreeAnchorsB(g, shape) ==
  FreeAnchors(g, zen3_GRID_ROWS, zen3_GRID_COLS, shape[1], shape[2])

\* the shape and the position an iteration ended with, read off the canvas:
\* None when the iteration pasted nothing
PlacedShape ==
  IF canvas' = canvas THEN None
  ELSE <<canvas'[Len(canvas')].w, canvas'[Len(canvas')].h>>

PlacedAt ==
  IF canvas' = canvas THEN None
  ELSE <<canvas'[Len(canvas')].row, canvas'[Len(canvas')].col>>

ShapeToPlace(g, d) ==
  IF FreeAnchorsB(g, d) # {} THEN d
  ELSE IF FreeAnchorsB(g, <<2, 1>>) # {} THEN <<2, 1>>
  ELSE IF FreeAnchorsB(g, <<1, 2>>) # {} THEN <<1, 2>>
  ELSE IF FreeAnchorsB(g, <<1, 1>>) # {} THEN <<1, 1>>
  ELSE None

GridBeforeLast ==
  LET p == canvas[Len(canvas)]
  IN [r \in DOMAIN grid |->
        [c \in DOMAIN grid[r] |-> grid[r][c] /\ <<r, c>> \notin CellsOf(p)]]

C8_SkipCounts ==
  /\ [](mode = "B" => /\ image_idx <= placement_attempts
                      /\ placement_attempts <= 3 * Len(images))
  /\ [][\A d \in get_random_chunk :
          zen3IterationFor(d) =>
            /\ placement_attempts' = placement_attempts + 1
            /\ pc' = "loop"
            /\ ShapeToPlace(grid, d) = None =>
                 grid' = grid /\ image_idx' = image_idx /\ canvas' = canvas]_vars

\* an iteration was skipped (one attempt more than images consumed) and the
\* loop goes on
C8_Witness ==
  /\ mode = "B" /\ pc = "loop" /\ GridFull
  /\ placement_attempts = image_idx + 1
  /\ placement_attempts < 3 * Len(images)
  /\ image_idx < Len(images)

\* C9: the k-th pasted rectangle carries the k-th image of the queue, the
\* number of pasted rectangles is the image index, which never exceeds the
\* number of images; the index moves only by one, together with a paste.
C9_ImagesOnce ==
  /\ [](/\ Len(canvas) = image_idx
        /\ image_idx <= Len(images)
        /\ \A k \in DOMAIN canvas : canvas[k].img = images[k])
  /\ [][/\ image_idx' \in {image_idx, image_idx + 1}
        /\ image_idx' = image_idx + 1 <=> canvas' # canvas]_vars

\* Mode A consumed a reversed queue of five images
C9_Witness ==
  /\ mode = "A" /\ pc = "done" /\ Len(images) = 5 /\ images[1] = 5
  /\ image_idx = 5 /\ canvas[5].img = 1

\* C10: in Mode A, once the last image is consumed no step marks a cell or
\* pastes, and the function returns its canvas only with the queue exhausted
\* or the 100 cycles of the catalog used up.
C10_StopsWhenExhausted ==
  /\ [][(mode = "A" /\ image_idx = Len(images)) =>
          grid' = grid /\ canvas' = canvas /\ image_idx' = image_idx]_vars
  /\ []((mode = "A" /\ ret = "canvas") =>
          /\ pc = "done"
          /\ image_idx = Len(images) \/ chunk_i = Chaos_sequence_len)

\* Mode A returned on the first fitting shape after the last of 9 images
C10_Witness ==
  /\ mode = "A" /\ pc = "done" /\ ret = "canvas"
  /\ Len(images) = 9 /\ image_idx = 9 /\ Len(canvas) = 9
  /\ chunk_i < Chaos_sequence_len /\ ~GridFull

(***************************************************************************)
(* Mode A is reproducible.                                                 *)
(***************************************************************************)
\* A shape of the catalog has a free anchor on grid g
ChaosSomeFits(g) ==
  \E k \in DOMAIN Chaos_CHUNKS :
    Chaos_scan(g, Chaos_CHUNKS[k][1], Chaos_CHUNKS[k][2], 0) # None

\* The placements <<chunk_w, chunk_h, row, col>> made from iteration i on, on
\* grid g, by a run that never lacks an image.  Once no shape of the catalog
\* fits, no later iteration places anything.
RECURSIVE ChaosPlacementsFrom(_, _)
ChaosPlacementsFrom(g, i) ==
  IF i >= Chaos_sequence_len \/ ~ChaosSomeFits(g)
  THEN << >>
  ELSE LET c == Chaos_CHUNKS[(i % Len(Chaos_CHUNKS)) + 1]
           p == Chaos_scan(g, c[1], c[2], 0)
       IN IF p = None
          THEN ChaosPlacementsFrom(g, i + 1)
          ELSE <<<<c[1], c[2], p[1], p[2]>>>> \o
               ChaosPlacementsFrom(Chaos_occupy(g, c[1], c[2], p[1], p[2]), i + 1)

ChaosPlacements ==
  ChaosPlacementsFrom(EmptyGrid(Chaos_GRID_ROWS, Chaos_GRID_COLS), 0)

\* C11: Mode A is reproducible: whatever the number and the order of the
\* images, the k-th paste puts the k-th image of the queue on the k-th
\* (shape, anchor) of one fixed sequence, so the placements of N images are
\* the first N of that sequence and a prefix of those of any M >= N images.
C11_Reproducible ==
  mode = "A" =>
    /\ Len(canvas) <= Len(ChaosPlacements)
    /\ Len(canvas) <= Len(images)
    /\ \A k \in DOMAIN canvas :
         /\ <<canvas[k].w, canvas[k].h, canvas[k].row, canvas[k].col>>
              = ChaosPlacements[k]
         /\ canvas[k].img = images[k]

\* Mode A placed ten images queued in reversed order
C11_Witness ==
  /\ mode = "A" /\ pc = "done" /\ ret = "canvas"
  /\ Len(images) = 10 /\ images[1] = 10 /\ Len(canvas) = 10

(***************************************************************************)
(* Mode A: shapes that found no anchor.                                    *)
(***************************************************************************)
\* The state is about to run an iteration of the Mode A loop
ChaosAttempting == mode = "A" /\ pc = "loop" /\ chunk_i < Chaos_sequence_len

\* The shape that iteration attempts
ChaosShape == Chaos_CHUNKS[(chunk_i % Len(Chaos_CHUNKS)) + 1]

\* C12 as stated: in Mode A no iteration attempts a shape that has already
\* found no free anchor in this run.
C12_NoRetry ==
  [][ChaosAttempting => ChaosShape \notin failed]_vars

\* C12 amended: in Mode A a shape that has found no free anchor has none at
\* any later time, so the iterations that attempt it again in the later
\* cycles of the catalog place nothing, consume no image and mark no cell;
\* a failing iteration only moves on to the next shape of the sequence.
C12_FailedStaysFailed ==
  /\ [](mode = "A" =>
          \A c \in failed : Chaos_scan(grid, c[1], c[2], 0) = None)
  /\ [][(ChaosAttempting /\ ChaosShape \in failed) =>
          /\ grid' = grid /\ canvas' = canvas /\ image_idx' = image_idx
          /\ chunk_i' = chunk_i + 1 /\ pc' = pc]_vars

\* The 4x3 shape failed in the third cycle of the catalog, was attempted again
\* in the fourth, and the run went on to the next shape with 22 pastes made
C12_Witness ==
  /\ mode = "A" /\ pc = "loop" /\ chunk_i = 26
  /\ <<4, 3>> \in failed /\ Len(canvas) = 22

C19_NoImageAndCellLeftA ==
  (mode = "A" /\ pc = "done" /\ ret = "canvas") =>
    (image_idx = Len(images) \/ GridFull)

\* Mode A went through the whole sequence with an image left, on a full grid
C19_Witness ==
  /\ mode = "A" /\ pc = "done" /\ ret = "canvas"
  /\ image_idx < Len(images) /\ chunk_i = Chaos_sequence_len
  /\ GridFull

(***************************************************************************)
(* The resolution probe.                                                   *)
(***************************************************************************)
\* tok has the form <width>x<height>@<refresh>: an x before its first @
IsResolutionToken(tok) ==
  \E a \in DOMAIN tok :
    /\ tok[a] = "@"
    /\ \A b \in 1..(a - 1) : tok[b] # "@"
    /\ \E c \in 1..(a - 1) : tok[c] = "x"

\* The width and the height such a token spells: what stands before its first
\* x, and between that x and the first @
TokenWidth(tok) ==
  SubSeq(tok, 1, Nth({ c \in DOMAIN tok : tok[c] = "x" }, 1) - 1)

TokenHeight(tok) ==
  SubSeq(tok, Nth({ c \in DOMAIN tok : tok[c] = "x" }, 1) + 1,
              Nth({ a \in DOMAIN tok : tok[a] = "@" }, 1) - 1)

\* What the probe is to return on input pr
ProbeExpected(pr) ==
  IF pr.kind # "ran" \/ pr.returncode # 0 THEN DEFAULT_RESOLUTION
  ELSE LET lines == SplitOn(pr.stdout, "\n")
           matching == { i \in DOMAIN lines :
                           /\ has_port(lines[i])
                           /\ \E j \in DOMAIN SplitBlanks(lines[i]) :
                                IsResolutionToken(SplitBlanks(lines[i])[j]) }
       IN IF matching = {} THEN DEFAULT_RESOLUTION
          ELSE LET toks == SplitBlanks(lines[Nth(matching, 1)])
                   tok == toks[Nth({ j \in DOMAIN toks : IsResolutionToken(toks[j]) }, 1)]
               IN IF IsInt(TokenWidth(tok)) /\ IsInt(TokenHeight(tok))
                  THEN <<IntOf(TokenWidth(tok)), IntOf(TokenHeight(tok))>>
                  ELSE DEFAULT_RESOLUTION

\* C16: get_screen_resolution never raises and returns a pair of integers:
\* the width and height parsed from the first token of the form
\* <width>x<height>@<refresh> on the first output line that carries a port
\* marker (HDMI, DP, eDP) and such a token, and (5120, 1440) on every failure
\* (program missing, non-zero exit, timeout, no matching line, a token that
\* does not parse).
C16_ProbeResult ==
  main_pc = "probed" =>
    /\ screen \in Int \X Int
    /\ screen = ProbeExpected(probe)

\* The probe skipped a line naming a port without a resolution and parsed the
\* next line
C16_Witness ==
  /\ main_pc = "probed"
  /\ probe = [kind |-> "ran", returncode |-> 0,
              stdout |-> JoinLines(<<LINE_1, LINE_3>>)]
  /\ screen = <<1920, 1080>>

(***************************************************************************)
(* main(): no fatal conditions, and the empty image set.                   *)
(***************************************************************************)
\* C15: once the image set is non-empty the layout function, called with the
\* resolution the probe returned, completes without raising: it ends by
\* returning a canvas, and every target rectangle pasted on has w, h >= 1.
C15_NoFatal ==
  /\ (pc = "done" /\ Len(images) > 0) => ret = "canvas"
  /\ \A k \in DOMAIN canvas :
       LET e == canvas[k]
           t == IF mode = "A" THEN Chaos_target(screen, e.w, e.h, e.row, e.col)
                              ELSE zen3_target(screen, e.w, e.h, e.row, e.col)
       IN t.w >= 1 /\ t.h >= 1

\* C17: with an empty image set main() never enters the layout function,
\* writes no file and runs no wallpaper command, and ends having printed
\* "No images found." only; the file is written only with images, and the
\* wallpaper command runs only after the file is written.
C17_EmptySet ==
  /\ Len(images) = 0 =>
       /\ main_pc \in {"start", "probed", "loaded", "done"}
       /\ pc = "start" /\ canvas = << >>
       /\ file = "absent" /\ ~applied
       /\ main_pc = "done" => out = <<"No images found.">>
  /\ file = "written" => Len(images) > 0
  /\ applied => file = "written"
  /\ Len(images) > 0 => \A k \in DOMAIN out : out[k] # "No images found."

\* main() ended on an empty image set
C17_Witness ==
  /\ Len(images) = 0 /\ main_pc = "done"
  /\ out = <<"No images found.">> /\ file = "absent" /\ ~applied

(***************************************************************************)
(* Pixel geometry keeps chunks apart.                                      *)
(***************************************************************************)
\* The cells of placement p of rects
RectCells(p) ==
  { <<r, c>> : r \in p.row..(p.row + p.chunk_h - 1),
               c \in p.col..(p.col + p.chunk_w - 1) }

\* Rectangles a and b are at least gap pixels apart on a separating axis
Apart(a, b, gap) ==
  \/ a.x + a.w + gap <= b.x
  \/ b.x + b.w + gap <= a.x
  \/ a.y + a.h + gap <= b.y
  \/ b.y + b.h + gap <= a.y

\* C20: with cell sizes >= 1, the target rectangle of every in-bounds
\* placement lies inside the canvas inset by OUTER_PADDING on each side, and
\* the target rectangles of two placements with disjoint cell ranges are
\* disjoint in pixels and at least INNER_PADDING apart on a separating axis.
C20_ChunksApart ==
  /\ \A i \in DOMAIN rects :
       LET t == rects[i].rect
       IN /\ t.w >= 1 /\ t.h >= 1
          /\ t.x >= zen3_OUTER_PADDING
          /\ t.x + t.w <= screen[1] - zen3_OUTER_PADDING
          /\ t.y >= zen3_OUTER_PADDING
          /\ t.y + t.h <= screen[2] - zen3_OUTER_PADDING
  /\ \A i, j \in DOMAIN rects :
       (i # j /\ RectCells(rects[i]) \cap RectCells(rects[j]) = {}) =>
         Apart(rects[i].rect, rects[j].rect, zen3_INNER_PADDING)

\* Two shapes side by side in row 0 on the narrowest screen: the second
\* starts INNER_PADDING pixels after the first ends
C20_Witness ==
  /\ Len(rects) = 2
  /\ screen[1] = MinExtent(zen3_OUTER_PADDING, zen3_INNER_PADDING, zen3_GRID_COLS)
  /\ rects[1].row = 0 /\ rects[1].col = 0 /\ rects[1].chunk_w = 2
  /\ rects[2].row = 0 /\ rects[2].col = 2
  /\ rects[2].rect.x = rects[1].rect.x + rects[1].rect.w + zen3_INNER_PADDING

(***************************************************************************)
(* The two fits.                                                           *)
(***************************************************************************)
Abs(n) == IF n < 0 THEN 0 - n ELSE n

\* C13: Mode B fit-with-crop: for every image size and target rectangle with
\* w, h >= 1 the scaled image covers the target, the bitmap pasted has
\* exactly the size w x h with its top-left corner at (x, y), and when the
\* image is wider than the target the columns cropped on the left and on the
\* right differ by at most 1.
C13_FitWithCrop ==
  (mode = "B" /\ fitted # None) =>
    /\ fitted.new_width >= target.w
    /\ fitted.new_height >= target.h
    /\ fitted.paste_w = target.w /\ fitted.paste_h = target.h
    /\ fitted.paste_x = target.x /\ fitted.paste_y = target.y
    /\ img_size[1] * target.h > img_size[2] * target.w =>
         Abs(fitted.crop_x - (fitted.new_width - target.w - fitted.crop_x)) <= 1

\* C14: Mode A fit-without-crop: for every image size and target rectangle
\* with w, h >= 1 the scaled image covers the target, with equality on at
\* least one axis, and is pasted centred: on each axis the overflow before
\* and the overflow after the rectangle are both >= 0 and differ by at most 1.
C14_FitWithoutCrop ==
  (mode = "A" /\ fitted # None) =>
    LET before_x == target.x - fitted.paste_x
        after_x == fitted.paste_x + fitted.new_width - (target.x + target.w)
        before_y == target.y - fitted.paste_y
        after_y == fitted.paste_y + fitted.new_height - (target.y + target.h)
    IN /\ fitted.new_width >= target.w
       /\ fitted.new_height >= target.h
       /\ fitted.new_width = target.w \/ fitted.new_height = target.h
       /\ before_x >= 0 /\ after_x >= 0 /\ Abs(before_x - after_x) <= 1
       /\ before_y >= 0 /\ after_y >= 0 /\ Abs(before_y - after_y) <= 1
====
